---- MODULE Spec2Model ----
(***************************************************************************)
(* Model of tasks/rebaseWebClient: the script that replays the commits of  *)
(* the integration branch "v3" onto the branch "public" of the mirror      *)
(* remote "webclient".  The script is a sequence of awaited shell          *)
(* commands; the git repository it acts on is the environment.             *)
(*                                                                         *)
(* Text is modelled character by character: a string is a tuple of one     *)
(* character strings, so that grep's word matching and split('---') are    *)
(* computed as the programs compute them.                                  *)
(***************************************************************************)
EXTENDS Integers, Sequences, FiniteSets, TLC

\* ------------------------------------------------------------------ bounds
\* number of commits of the integration branch on the origin server
NumV3 == 3
\* how many commits the local v3 may be behind origin/v3 when the script runs
MaxBehind == 1
\* how many times the script is run on the same clone
MaxRuns == 2
\* how many 'networkActivity' events are broadcast to the loader
MaxEvents == 4

\* ------------------------------------------------------------------- text
Digits == <<"1", "2", "3", "4", "5", "6", "7", "8", "9">>

\* word constituents for grep -w: letters, digits, underscore
WordChars == {"a", "b", "c", "e", "f", "g", "i", "l", "n", "o", "p", "r",
              "t", "u", "v", "w", "x",
              "0", "1", "2", "3", "4", "5", "6", "7", "8", "9"}

IsWord(c) == c \in WordChars

SEP == <<"-", "-", "-">>
EMPTY == <<>>

V3 == <<"v", "3">>
PUBLIC == <<"p", "u", "b", "l", "i", "c">>
FEATURE == <<"f", "x">>
WEBCLIENT == <<"w", "e", "b", "c", "l", "i", "e", "n", "t">>
XWEBCLIENT == <<"x">> \o WEBCLIENT
ORIGIN == <<"o", "r", "i", "g", "i", "n">>
TRACKING == WEBCLIENT \o <<"/">> \o PUBLIC

\* the full commit identifier printed by %H
HashStr(i) == IF i <= 9 THEN <<Digits[i]>> ELSE <<"0", Digits[i - 9]>>

\* s[i .. i+Len(pat)-1] = pat
OccursAt(pat, s, i) ==
    /\ i >= 1
    /\ i + Len(pat) - 1 <= Len(s)
    /\ \A j \in 1..Len(pat) : s[i + j - 1] = pat[j]

\* grep PATTERN: the line contains the pattern
Grep(pat, line) == \E i \in 1..(Len(line) + 1) : OccursAt(pat, line, i)

\* grep -w PATTERN: an occurrence that is preceded by the start of the line or
\* a non-word constituent and followed by the end of the line or a non-word
\* constituent
GrepW(pat, line) ==
    \E i \in 1..(Len(line) + 1) :
        /\ OccursAt(pat, line, i)
        /\ (i = 1 \/ ~IsWord(line[i - 1]))
        /\ (i + Len(pat) > Len(line) \/ ~IsWord(line[i + Len(pat)]))

\* index of the first occurrence of '---' in s, 0 when there is none
FirstSep(s) ==
    IF \E i \in 1..Len(s) : OccursAt(SEP, s, i)
    THEN CHOOSE i \in 1..Len(s) :
            /\ OccursAt(SEP, s, i)
            /\ \A j \in 1..(i - 1) : ~OccursAt(SEP, s, j)
    ELSE 0

\* const [ hash = '' ] = output.split('---')
Field1(s) == IF FirstSep(s) = 0 THEN s ELSE SubSeq(s, 1, FirstSep(s) - 1)

\* const [ , label = '' ] = output.split('---')
Field2(s) ==
    IF FirstSep(s) = 0 THEN EMPTY
    ELSE Field1(SubSeq(s, FirstSep(s) + 3, Len(s)))

\* strip-ansi removes the escape sequences; "E" stands for one of them
stripAnsi(s) == SelectSeq(s, LAMBDA c : c # "E")

\* const [ output = '' ] = stripAnsi(stdout).split('\n')
FirstLine(stdout) == IF stdout = <<>> THEN EMPTY ELSE stripAnsi(stdout[1])

\* { hash, label } of the first line of a `%H---%s` listing
ParsePointer(stdout) ==
    [hash |-> Field1(FirstLine(stdout)), label |-> Field2(FirstLine(stdout))]

\* -------------------------------------------------------------------- git
\* The repository is a record:
\*   HEAD     name of the checked-out branch
\*   refs     branch name -> commit (local branches and the tracking branch)
\*   commits  commit -> [s: subject, p: parent commit, 0 for a root]
\*   remotes  names of the registered remotes
\*   server   the commit of branch "public" in the webclient repository

RECURSIVE History(_, _)
\* the commits reachable from h, most recent first (git log)
History(cs, h) == IF h = 0 THEN <<>> ELSE <<h>> \o History(cs, cs[h].p)

\* git log --pretty=format:'%H---%s'
LogLines(cs, h) ==
    [i \in 1..Len(History(cs, h)) |->
        HashStr(History(cs, h)[i]) \o SEP \o cs[History(cs, h)[i]].s]

InSeq(x, q) == \E i \in 1..Len(q) : q[i] = x

Reverse(q) == [i \in 1..Len(q) |-> q[Len(q) + 1 - i]]

\* the commit a revision string names, 0 when it names none
Resolve(cs, str) ==
    IF \E i \in DOMAIN cs : HashStr(i) = str
    THEN CHOOSE i \in DOMAIN cs : HashStr(i) = str
    ELSE 0

\* an omitted end of a range x..y stands for HEAD
RevOrHead(r, str) == IF str = EMPTY THEN r.refs[r.HEAD] ELSE Resolve(r.commits, str)

\* x..y : the commits reachable from y and not from x, oldest first
Range(r, x, y) ==
    SelectSeq(Reverse(History(r.commits, RevOrHead(r, y))),
              LAMBDA c : ~InSeq(c, History(r.commits, RevOrHead(r, x))))

MaxOf(S) == CHOOSE m \in S : \A n \in S : n <= m

RECURSIVE PickAll(_, _, _)
\* replay the commits of q on the checked-out branch, each as a new commit
PickAll(r, q, n) ==
    IF n = 0 \/ q = <<>> THEN r
    ELSE LET new == MaxOf(DOMAIN r.commits) + 1
             r2 == [r EXCEPT
                      !.commits = r.commits @@
                          (new :> [s |-> r.commits[q[1]].s, p |-> r.refs[r.HEAD]]),
                      !.refs = [r.refs EXCEPT ![r.HEAD] = new]]
         IN PickAll(r2, Tail(q), n - 1)

IsAncestor(cs, a, b) == InSeq(a, History(cs, b))

Cmd(op, arg) == [op |-> op, arg |-> arg, x |-> EMPTY, y |-> EMPTY]
CmdXY(op, x, y) == [op |-> op, arg |-> EMPTY, x |-> x, y |-> y]

\* commands that can fail for reasons outside the repository state: the
\* network, a dirty working tree, a conflict
Failable == {"checkout", "checkout -b", "pull origin", "pull webclient", "fetch",
             "push", "cherry-pick"}

Ok(r, out) == [ok |-> TRUE, repo |-> r, out |-> out]
Fail(r) == [ok |-> FALSE, repo |-> r, out |-> <<>>]

\* One command on repository r.  env: the command is hit by an outside
\* failure; j: the number of commits a stopped cherry-pick had replayed.
Apply(c, r, env, j) ==
    CASE c.op = "rev-parse" ->
            \* git rev-parse --abbrev-ref HEAD
            Ok(r, <<r.HEAD>>)
      [] c.op = "remote|grep" ->
            \* git remote | grep webclient : status of grep
            IF \E n \in r.remotes : Grep(c.arg, n)
            THEN Ok(r, <<>>) ELSE Fail(r)
      [] c.op = "remote add" ->
            IF c.arg \in r.remotes THEN Fail(r)
            ELSE Ok([r EXCEPT !.remotes = r.remotes \cup {c.arg}], <<>>)
      [] c.op = "config" -> Ok(r, <<>>)
      [] c.op = "fetch" ->
            IF env \/ c.arg \notin r.remotes THEN Fail(r)
            ELSE Ok([r EXCEPT !.refs = (TRACKING :> r.server) @@ r.refs], <<>>)
      [] c.op = "checkout -b" ->
            \* git checkout -b public webclient/public
            IF env \/ c.arg \in DOMAIN r.refs \/ TRACKING \notin DOMAIN r.refs
            THEN Fail(r)
            ELSE Ok([r EXCEPT !.refs = (c.arg :> r.refs[TRACKING]) @@ r.refs,
                              !.HEAD = c.arg], <<>>)
      [] c.op = "checkout" ->
            IF env THEN Fail(r)
            ELSE IF c.arg \in DOMAIN r.refs /\ c.arg # TRACKING
                 THEN Ok([r EXCEPT !.HEAD = c.arg], <<>>)
            ELSE IF TRACKING \in DOMAIN r.refs /\ c.arg = PUBLIC
                 \* no local branch, one remote has it: a tracking branch is created
                 THEN Ok([r EXCEPT !.refs = (c.arg :> r.refs[TRACKING]) @@ r.refs,
                                   !.HEAD = c.arg], <<>>)
            ELSE Fail(r)
      [] c.op = "log -1 %H---%s" ->
            Ok(r, <<LogLines(r.commits, r.refs[r.HEAD])[1]>>)
      [] c.op = "log -1 %s" ->
            Ok(r, <<r.commits[r.refs[r.HEAD]].s>>)
      [] c.op = "log|grep -w" ->
            \* git log --pretty=format:'%H---%s' | grep -w "name" : status of grep
            LET hits == SelectSeq(LogLines(r.commits, r.refs[r.HEAD]),
                                  LAMBDA l : GrepW(c.x, l))
            IN IF hits = <<>> THEN Fail(r) ELSE Ok(r, hits)
      [] c.op = "pull origin" ->
            \* git pull origin v3 into the checked-out branch: fast-forward
            IF env \/ ORIGIN \notin r.remotes THEN Fail(r)
            ELSE IF IsAncestor(r.commits, r.refs[r.HEAD], NumV3)
                 THEN Ok([r EXCEPT !.refs[r.HEAD] = NumV3], <<>>)
            ELSE IF IsAncestor(r.commits, NumV3, r.refs[r.HEAD])
                 THEN Ok(r, <<>>)
            ELSE Fail(r)
      [] c.op = "pull webclient" ->
            \* git pull webclient public into the checked-out branch
            IF env \/ WEBCLIENT \notin r.remotes THEN Fail(r)
            ELSE IF IsAncestor(r.commits, r.refs[r.HEAD], r.server)
                 THEN Ok([r EXCEPT !.refs = (TRACKING :> r.server) @@
                                      [r.refs EXCEPT ![r.HEAD] = r.server]], <<>>)
            ELSE IF IsAncestor(r.commits, r.server, r.refs[r.HEAD])
                 THEN Ok(r, <<>>)
            ELSE Fail(r)
      [] c.op = "cherry-pick" ->
            \* git cherry-pick -X theirs --allow-empty x..y
            IF RevOrHead(r, c.x) = 0 \/ RevOrHead(r, c.y) = 0 THEN Fail(r)
            ELSE IF Range(r, c.x, c.y) = <<>> THEN Fail(r)   \* empty commit set passed
            ELSE IF env THEN Fail(PickAll(r, Range(r, c.x, c.y), j))
            ELSE Ok(PickAll(r, Range(r, c.x, c.y), Len(Range(r, c.x, c.y))), <<>>)
      [] c.op = "push" ->
            \* git push webclient public
            IF env \/ WEBCLIENT \notin r.remotes \/ PUBLIC \notin DOMAIN r.refs
               \/ ~IsAncestor(r.commits, r.server, r.refs[PUBLIC])
            THEN Fail(r)
            ELSE Ok([r EXCEPT !.server = r.refs[PUBLIC],
                              !.refs = (TRACKING :> r.refs[PUBLIC]) @@ r.refs], <<>>)

RECURSIVE RunFrom(_, _, _, _, _)
\* cmd1 && cmd2 && ... : the commands run in order and stop at the first
\* that fails; k is the position hit by an outside failure (0: none)
RunFrom(chain, i, r, k, j) ==
    IF i > Len(chain) THEN [ok |-> TRUE, repo |-> r, out |-> <<>>, log |-> <<>>]
    ELSE LET a == Apply(chain[i], r, i = k, j)
         IN IF ~a.ok
            THEN [ok |-> FALSE, repo |-> a.repo, out |-> <<>>,
                  log |-> <<[c |-> chain[i], ok |-> FALSE]>>]
            ELSE LET rest == RunFrom(chain, i + 1, a.repo, k, j)
                 IN [ok |-> rest.ok, repo |-> rest.repo, out |-> a.out \o rest.out,
                     log |-> <<[c |-> chain[i], ok |-> TRUE]>> \o rest.log]

Run(chain, r, k, j) == RunFrom(chain, 1, r, k, j)

\* the positions of a chain an outside failure can hit
FailPoints(chain) ==
    {0} \cup {k \in 1..Len(chain) : chain[k].op \in Failable}

\* ------------------------------------------------------------- the script
VARIABLES
    pc,               \* the statement the script is at
    plan,             \* the calls of the caller's body still to make
    awaiting,         \* the script is suspended on a child process
    inflight,         \* number of child processes started and not finished
    repo,             \* the git repository
    argv,             \* [tag, help]; tag is {} when --tag is absent
    nameArg,          \* parameter `name` of getCommitByName
    target,           \* the constant the resolved pointer is bound to
    wcStdout,         \* stdout of the first command of getWebclientRelease
    angularRelease,   \* {} until resolved, then {pointer}
    webclientRelease, \* {} until resolved, then {pointer}
    error,            \* message of the error thrown
    console,          \* what the script printed
    exitCode,         \* -1 while the process runs
    cmdLog,           \* the git commands run, with their outcome
    startRepo,        \* the repository as the script found it
    runs,             \* number of times the script was started
    classList,        \* protonLoader: the classes of the element el[0]
    rafQueue,         \* protonLoader: the animation-frame callbacks scheduled
    events,           \* protonLoader: the types of the events broadcast so far
    picked            \* what the last successful cherry-pick replayed, and where

vars == <<pc, plan, awaiting, inflight, repo, argv, nameArg, target, wcStdout,
          angularRelease, webclientRelease, error, console, exitCode, cmdLog,
          startRepo, runs, picked, classList, rafQueue, events>>

loaderVars == <<classList, rafQueue, events>>

scriptVars == <<pc, plan, awaiting, inflight, repo, argv, nameArg, target, wcStdout,
                angularRelease, webclientRelease, error, console, exitCode, cmdLog,
                startRepo, runs, picked>>

\* commit subjects and tags of the bounded histories
Subjects == {<<"a">>, <<"a", "-", "-", "-", "b">>, <<"2">>}
Tags == {<<"a">>, <<"b">>, <<"2">>}

WrongBranch == "You must be on V3 to sync the webclient"
CommandFailed == "Command failed"

\* the body of the try block of the top-level driver
DriverPlan == <<"isDeployAbleBranch", "hasPublicRemote", "getAngularRelease",
                "getWebclientRelease", "print", "syncWebclient", "exit0">>

\* two calls of hasPublicRemote in a row
TwicePlan == <<"hasPublicRemote", "hasPublicRemote", "end">>

\* the remote configurations a clone can be in: set up; never set up; remote
\* registered but nothing fetched; another remote whose name contains the word
RemoteConfigs ==
    { [remotes |-> {ORIGIN, WEBCLIENT},
       refs |-> (PUBLIC :> NumV3 + 1) @@ (TRACKING :> NumV3 + 1)],
      [remotes |-> {ORIGIN}, refs |-> <<>>],
      [remotes |-> {ORIGIN, WEBCLIENT}, refs |-> <<>>],
      [remotes |-> {ORIGIN, XWEBCLIENT}, refs |-> <<>>] }

\* v3 is the chain 1 <- 2 <- ... <- NumV3, public the single commit NumV3 + 1
InitRepos ==
    { [HEAD |-> h,
       refs |-> (V3 :> t) @@ (FEATURE :> 1) @@ rc.refs,
       commits |-> [i \in 1..(NumV3 + 1) |->
                      [s |-> subj[i], p |-> IF i = NumV3 + 1 THEN 0 ELSE i - 1]],
       remotes |-> rc.remotes,
       server |-> NumV3 + 1] :
      h \in {V3, FEATURE, PUBLIC},
      t \in {n \in (NumV3 - MaxBehind)..NumV3 : n >= 1},
      rc \in RemoteConfigs,
      subj \in [1..(NumV3 + 1) -> Subjects] }

\* the loader element as compiled from its template, before any event
InitLoaderVars ==
    /\ classList = {}
    /\ rafQueue = <<>>
    /\ events = <<>>

InitCommon ==
    /\ InitLoaderVars
    /\ awaiting = FALSE
    /\ inflight = 0
    /\ repo \in {r \in InitRepos : r.HEAD \in DOMAIN r.refs}
    /\ nameArg = EMPTY
    /\ target = "none"
    /\ wcStdout = <<>>
    /\ angularRelease = {}
    /\ webclientRelease = {}
    /\ error = ""
    /\ console = <<>>
    /\ exitCode = -1
    /\ cmdLog = <<>>
    /\ startRepo = repo
    /\ runs = 1
    /\ picked = [on |-> EMPTY, src |-> <<>>]

Init ==
    /\ InitCommon
    /\ pc = "start"
    /\ plan = DriverPlan
    /\ argv \in [tag : {{}} \cup {{t} : t \in Tags}, help : BOOLEAN]

Say(k, m) == console' = Append(console, [k |-> k, m |-> m])

\* success(msg)
success(m) == Say("success", m)

\* the awaited call returned: the caller goes on with its next statement
Return == pc' = Head(plan) /\ plan' = Tail(plan)

\* mutant: the error is swallowed and the caller goes on
Throw_mut(m) == pc' = Head(plan) /\ plan' = Tail(plan) /\ error' = m

\* the awaited call threw: control goes to the catch clause
Throw(m) == pc' = "catch" /\ error' = m /\ UNCHANGED plan

\* mutant: the history is searched whether or not a tag is given
Truthy_mut(t) == TRUE

\* `if (name)`: undefined and the empty string are falsy
Truthy(t) == t # {} /\ t # {EMPTY}

TheHash(rel) == (CHOOSE p \in rel : TRUE).hash

\* `String(name)` inside the template literal
UNDEFINED == <<"u", "n", "d", "e", "f", "i", "n", "e", "d">>
TagName(t) == IF t = {} THEN UNDEFINED ELSE CHOOSE n \in t : TRUE

\* mutant: only the mirror branch is refused
Deployable_mut(output) == output # PUBLIC

\* output !== 'v3' throws
Deployable(output) == output = V3

\* mutant: the exit status is ignored and the output is used as it is
Rejects_mut(res) == FALSE

\* mutant: a search that selects no line is not an error (`grep ... || true`)
Rejects_searchOk(res) == ~res.ok /\ res.log[Len(res.log)].c.op # "log|grep -w"

\* the promise of exec / commandeVerbose rejects when the command line exits
\* with a non-zero status
Rejects(res) == ~res.ok

\* mutant: the check looks for a remote that is never registered
HasRemoteCmd_mut == Cmd("remote|grep", PUBLIC)

HasRemoteCmd == Cmd("remote|grep", WEBCLIENT)

\* mutant: the ends of the range are exchanged
CherryPickCmd_mut(webclientHash, latestHash) ==
    CmdXY("cherry-pick", latestHash, webclientHash)

CherryPickCmd(webclientHash, latestHash) ==
    CmdXY("cherry-pick", webclientHash, latestHash)

\* mutant: the workflow stays on the mirror branch
SyncRestoreCmd_mut == Cmd("checkout", PUBLIC)

SyncRestoreCmd == Cmd("checkout", V3)

\* mutant: the workflow is started whatever the flags
RunsWorkflow_mut(a) == TRUE

\* !argv.help && (async () => { ... })()
RunsWorkflow(a) == ~a.help

\* mutant: a command is started without awaiting the one before it
MayStart_mut(suspended) == TRUE

\* await: the statement after it runs only once the promise is settled
MayStart(suspended) == ~suspended

ExecSteps == {"isDeployAbleBranch", "hasPublicRemote", "addPublicRemote",
              "getLatestCommit", "getCommitByName", "getWebclientRelease",
              "getWebclientRelease2", "syncWebclient", "syncWebclient2",
              "syncWebclient3", "syncWebclient4"}

\* the command line each awaited exec / commandeVerbose is given
Chain(step) ==
    CASE step = "isDeployAbleBranch" -> <<Cmd("rev-parse", EMPTY)>>
      [] step = "hasPublicRemote" -> <<HasRemoteCmd>>
      [] step = "addPublicRemote" ->
            <<Cmd("remote add", WEBCLIENT), Cmd("config", WEBCLIENT),
              Cmd("fetch", WEBCLIENT), Cmd("checkout -b", PUBLIC)>>
      [] step = "getLatestCommit" -> <<Cmd("log -1 %H---%s", EMPTY)>>
      [] step = "getCommitByName" -> <<CmdXY("log|grep -w", nameArg, EMPTY)>>
      [] step = "getWebclientRelease" ->
            <<Cmd("checkout", PUBLIC), Cmd("log -1 %s", EMPTY)>>
      [] step = "getWebclientRelease2" -> <<Cmd("checkout", V3)>>
      [] step = "syncWebclient" ->
            <<Cmd("checkout", V3), Cmd("pull origin", V3),
              Cmd("checkout", PUBLIC), Cmd("pull webclient", PUBLIC)>>
      [] step = "syncWebclient2" ->
            <<CherryPickCmd(TheHash(webclientRelease), TheHash(angularRelease))>>
      [] step = "syncWebclient3" -> <<Cmd("push", PUBLIC)>>
      [] step = "syncWebclient4" -> <<SyncRestoreCmd>>

\* child_process.exec(command, callback): the child starts, the caller awaits
exec ==
    /\ pc \in ExecSteps
    /\ MayStart(awaiting)
    /\ awaiting' = TRUE
    /\ inflight' = inflight + 1
    /\ UNCHANGED <<pc, plan, repo, argv, nameArg, target, wcStdout, angularRelease,
                   webclientRelease, error, console, exitCode, cmdLog, picked, startRepo, runs,
                   loaderVars>>

\* the child of step `step` finishes with result res; the promise is settled
Settled(step, res) ==
    /\ pc = step
    /\ awaiting
    /\ awaiting' = FALSE
    /\ inflight' = inflight - 1
    /\ repo' = res.repo
    /\ cmdLog' = cmdLog \o res.log

\* argv.help && help()
argvHelp ==
    /\ pc = "start"
    /\ argv.help
    /\ Say("help", "")
    /\ pc' = "end"
    /\ UNCHANGED <<plan, awaiting, inflight, repo, argv, nameArg, target, wcStdout,
                   angularRelease, webclientRelease, error, exitCode, cmdLog, picked, startRepo, runs,
                   loaderVars>>

\* !argv.help && (async () => { try { ...
main ==
    /\ pc = "start"
    /\ RunsWorkflow(argv)
    /\ Return
    /\ UNCHANGED <<awaiting, inflight, repo, argv, nameArg, target, wcStdout,
                   angularRelease, webclientRelease, error, console, exitCode,
                   cmdLog, picked, startRepo, runs,
                   loaderVars>>

isDeployAbleBranch ==
    /\ pc = "isDeployAbleBranch" /\ awaiting
    /\ \E k \in FailPoints(Chain("isDeployAbleBranch")) :
      LET res == Run(Chain("isDeployAbleBranch"), repo, k, 0)
      IN /\ Settled("isDeployAbleBranch", res)
         /\ IF Rejects(res) THEN Throw(CommandFailed)
            ELSE IF ~Deployable(FirstLine(res.out)) THEN Throw(WrongBranch)
            ELSE Return /\ UNCHANGED error
         /\ UNCHANGED <<argv, nameArg, target, wcStdout, angularRelease,
                        webclientRelease, console, exitCode, picked, startRepo, runs,
                   loaderVars>>

hasPublicRemote ==
    /\ pc = "hasPublicRemote" /\ awaiting
    /\ \E k \in FailPoints(Chain("hasPublicRemote")) :
      LET res == Run(Chain("hasPublicRemote"), repo, k, 0)
      IN /\ Settled("hasPublicRemote", res)
         /\ IF ~Rejects(res)
            THEN success("Public remote exists") /\ Return
            ELSE pc' = "addPublicRemote" /\ UNCHANGED <<plan, console>>
         /\ UNCHANGED <<argv, nameArg, target, wcStdout, angularRelease,
                        webclientRelease, error, exitCode, picked, startRepo, runs,
                   loaderVars>>

addPublicRemote ==
    /\ pc = "addPublicRemote" /\ awaiting
    /\ \E k \in FailPoints(Chain("addPublicRemote")) :
      LET res == Run(Chain("addPublicRemote"), repo, k, 0)
      IN /\ Settled("addPublicRemote", res)
         /\ IF ~Rejects(res)
            THEN success("Add public remote") /\ Return /\ UNCHANGED error
            ELSE Throw(CommandFailed) /\ UNCHANGED console
         /\ UNCHANGED <<argv, nameArg, target, wcStdout, angularRelease,
                        webclientRelease, exitCode, picked, startRepo, runs,
                   loaderVars>>

getAngularRelease ==
    /\ pc = "getAngularRelease"
    /\ target' = "angularRelease"
    /\ IF Truthy(argv.tag)
       THEN pc' = "getCommitByName" /\ nameArg' = TagName(argv.tag)
       ELSE pc' = "getLatestCommit" /\ UNCHANGED nameArg
    /\ UNCHANGED <<plan, awaiting, inflight, repo, argv, wcStdout, angularRelease,
                   webclientRelease, error, console, exitCode, cmdLog, picked, startRepo, runs,
                   loaderVars>>

\* the pointer a resolution returns is bound by the caller
Bind(ptr) ==
    IF target = "angularRelease"
    THEN angularRelease' = {ptr} /\ UNCHANGED webclientRelease
    ELSE webclientRelease' = {ptr} /\ UNCHANGED angularRelease

getLatestCommit ==
    /\ pc = "getLatestCommit" /\ awaiting
    /\ \E k \in FailPoints(Chain("getLatestCommit")) :
      LET res == Run(Chain("getLatestCommit"), repo, k, 0)
      IN /\ Settled("getLatestCommit", res)
         /\ IF ~Rejects(res)
            THEN Bind(ParsePointer(res.out)) /\ Return /\ UNCHANGED error
            ELSE Throw(CommandFailed) /\ UNCHANGED <<angularRelease, webclientRelease>>
         /\ UNCHANGED <<argv, nameArg, target, wcStdout, console, exitCode, picked, startRepo, runs,
                   loaderVars>>

getCommitByName ==
    /\ pc = "getCommitByName" /\ awaiting
    /\ \E k \in FailPoints(Chain("getCommitByName")) :
      LET res == Run(Chain("getCommitByName"), repo, k, 0)
      IN /\ Settled("getCommitByName", res)
         /\ IF ~Rejects(res)
            THEN Bind(ParsePointer(res.out)) /\ Return /\ UNCHANGED error
            ELSE Throw(CommandFailed) /\ UNCHANGED <<angularRelease, webclientRelease>>
         /\ UNCHANGED <<argv, nameArg, target, wcStdout, console, exitCode, picked, startRepo, runs,
                   loaderVars>>

getWebclientRelease ==
    /\ pc = "getWebclientRelease" /\ awaiting
    /\ \E k \in FailPoints(Chain("getWebclientRelease")) :
      LET res == Run(Chain("getWebclientRelease"), repo, k, 0)
      IN /\ Settled("getWebclientRelease", res)
         /\ IF ~Rejects(res)
            THEN /\ wcStdout' = res.out
                 /\ pc' = "getWebclientRelease2"
                 /\ UNCHANGED <<plan, error>>
            ELSE Throw(CommandFailed) /\ UNCHANGED wcStdout
         /\ UNCHANGED <<argv, nameArg, target, angularRelease, webclientRelease,
                        console, exitCode, picked, startRepo, runs,
                   loaderVars>>

getWebclientRelease2 ==
    /\ pc = "getWebclientRelease2" /\ awaiting
    /\ \E k \in FailPoints(Chain("getWebclientRelease2")) :
      LET res == Run(Chain("getWebclientRelease2"), repo, k, 0)
      IN /\ Settled("getWebclientRelease2", res)
         /\ IF ~Rejects(res)
            THEN /\ nameArg' = FirstLine(wcStdout)
                 /\ target' = "webclientRelease"
                 /\ pc' = "getCommitByName"
                 /\ UNCHANGED <<plan, error>>
            ELSE Throw(CommandFailed) /\ UNCHANGED <<nameArg, target>>
         /\ UNCHANGED <<argv, wcStdout, angularRelease, webclientRelease, console,
                        exitCode, picked, startRepo, runs,
                   loaderVars>>

\* console.log(); console.log(JSON.stringify(...)); console.log()
print ==
    /\ pc = "print"
    /\ console' = console \o <<[k |-> "blank", m |-> ""], [k |-> "json", m |-> ""],
                               [k |-> "blank", m |-> ""]>>
    /\ Return
    /\ UNCHANGED <<awaiting, inflight, repo, argv, nameArg, target, wcStdout,
                   angularRelease, webclientRelease, error, exitCode, cmdLog, picked, startRepo, runs,
                   loaderVars>>

syncWebclient ==
    /\ pc = "syncWebclient" /\ awaiting
    /\ \E k \in FailPoints(Chain("syncWebclient")) :
      LET res == Run(Chain("syncWebclient"), repo, k, 0)
      IN /\ Settled("syncWebclient", res)
         /\ IF ~Rejects(res)
            THEN pc' = "syncWebclient2" /\ UNCHANGED <<plan, error>>
            ELSE Throw(CommandFailed)
         /\ UNCHANGED <<argv, nameArg, target, wcStdout, angularRelease,
                        webclientRelease, console, exitCode, picked, startRepo, runs,
                   loaderVars>>

syncWebclient2 ==
    /\ pc = "syncWebclient2" /\ awaiting
    /\ \E k \in FailPoints(Chain("syncWebclient2")) :
      \E j \in IF k = 0 THEN {0} ELSE 0..(NumV3 - 1) :
        LET c == Chain("syncWebclient2")[1]
            res == Run(Chain("syncWebclient2"), repo, k, j)
        IN /\ Settled("syncWebclient2", res)
           /\ IF ~Rejects(res)
              THEN /\ pc' = "syncWebclient3"
                   /\ picked' = [on |-> repo.HEAD, src |-> Range(repo, c.x, c.y)]
                   /\ UNCHANGED <<plan, error>>
              ELSE Throw(CommandFailed) /\ UNCHANGED picked
           /\ UNCHANGED <<argv, nameArg, target, wcStdout, angularRelease,
                          webclientRelease, console, exitCode, startRepo, runs,
                   loaderVars>>

syncWebclient3 ==
    /\ pc = "syncWebclient3" /\ awaiting
    /\ \E k \in FailPoints(Chain("syncWebclient3")) :
      LET res == Run(Chain("syncWebclient3"), repo, k, 0)
      IN /\ Settled("syncWebclient3", res)
         /\ IF ~Rejects(res)
            THEN pc' = "syncWebclient4" /\ UNCHANGED <<plan, error>>
            ELSE Throw(CommandFailed)
         /\ UNCHANGED <<argv, nameArg, target, wcStdout, angularRelease,
                        webclientRelease, console, exitCode, picked, startRepo, runs,
                   loaderVars>>

syncWebclient4 ==
    /\ pc = "syncWebclient4" /\ awaiting
    /\ \E k \in FailPoints(Chain("syncWebclient4")) :
      LET res == Run(Chain("syncWebclient4"), repo, k, 0)
      IN /\ Settled("syncWebclient4", res)
         /\ IF ~Rejects(res)
            THEN success("Sync webclient") /\ Return /\ UNCHANGED error
            ELSE Throw(CommandFailed) /\ UNCHANGED console
         /\ UNCHANGED <<argv, nameArg, target, wcStdout, angularRelease,
                        webclientRelease, exitCode, picked, startRepo, runs,
                   loaderVars>>

\* process.exit(0)
exit0 ==
    /\ pc = "exit0"
    /\ exitCode' = 0
    /\ pc' = "exited"
    /\ UNCHANGED <<plan, awaiting, inflight, repo, argv, nameArg, target, wcStdout,
                   angularRelease, webclientRelease, error, console, cmdLog, picked, startRepo, runs,
                   loaderVars>>

\* catch (e) { console.log(e.message); console.log(); help(); process.exit(1); }
catch ==
    /\ pc = "catch"
    /\ console' = console \o <<[k |-> "error", m |-> error], [k |-> "blank", m |-> ""],
                               [k |-> "help", m |-> ""]>>
    /\ exitCode' = 1
    /\ pc' = "exited"
    /\ UNCHANGED <<plan, awaiting, inflight, repo, argv, nameArg, target, wcStdout,
                   angularRelease, webclientRelease, error, cmdLog, picked, startRepo, runs,
                   loaderVars>>

Next ==
    \/ argvHelp
    \/ main
    \/ exec
    \/ isDeployAbleBranch
    \/ hasPublicRemote
    \/ addPublicRemote
    \/ getAngularRelease
    \/ getLatestCommit
    \/ getCommitByName
    \/ getWebclientRelease
    \/ getWebclientRelease2
    \/ print
    \/ syncWebclient
    \/ syncWebclient2
    \/ syncWebclient3
    \/ syncWebclient4
    \/ exit0
    \/ catch

Spec == Init /\ [][Next]_vars

\* ------------------------------------- the script run again on the clone
\* the operator starts the script again, with the same arguments, on the
\* repository the run before left
rerun ==
    /\ pc = "exited"
    /\ runs < MaxRuns
    /\ runs' = runs + 1
    /\ pc' = "start"
    /\ plan' = DriverPlan
    /\ startRepo' = repo
    /\ nameArg' = EMPTY
    /\ target' = "none"
    /\ wcStdout' = <<>>
    /\ angularRelease' = {}
    /\ webclientRelease' = {}
    /\ error' = ""
    /\ console' = <<>>
    /\ exitCode' = -1
    /\ cmdLog' = <<>>
    /\ picked' = [on |-> EMPTY, src |-> <<>>]
    /\ UNCHANGED <<awaiting, inflight, repo, argv, loaderVars>>

\* first run on a clone that was never set up, started on v3
InitRerun ==
    /\ Init
    /\ repo.remotes = {ORIGIN}
    /\ repo.HEAD = V3
    /\ ~argv.help

NextRerun ==
    \/ main
    \/ exec
    \/ isDeployAbleBranch
    \/ hasPublicRemote
    \/ addPublicRemote
    \/ getAngularRelease
    \/ getLatestCommit
    \/ getCommitByName
    \/ getWebclientRelease
    \/ getWebclientRelease2
    \/ print
    \/ syncWebclient
    \/ syncWebclient2
    \/ syncWebclient3
    \/ syncWebclient4
    \/ exit0
    \/ catch
    \/ rerun

SpecRerun == InitRerun /\ [][NextRerun]_vars

\* ------------------------------- hasPublicRemote called twice in a row
InitTwice ==
    /\ InitCommon
    /\ pc = Head(TwicePlan)
    /\ plan = Tail(TwicePlan)
    /\ argv \in [tag : {{}}, help : {FALSE}]

NextTwice ==
    \/ exec
    \/ hasPublicRemote
    \/ addPublicRemote

SpecTwice == InitTwice /\ [][NextTwice]_vars

\* ----------------------------------------------------------- properties
Ops(log) == {log[i].c.op : i \in 1..Len(log)}
CountOp(log, op) == Cardinality({i \in 1..Len(log) : log[i].c.op = op})
Printed(k, m) == \E i \in 1..Len(console) : console[i] = [k |-> k, m |-> m]
LastOf(q) == q[Len(q)]

ErrorReport(m) ==
    <<[k |-> "error", m |-> m], [k |-> "blank", m |-> ""], [k |-> "help", m |-> ""]>>

\* C1: when the script is started on a branch other than "v3", it fails in
\* isDeployAbleBranch with the message "You must be on V3 to sync the
\* webclient": the only command ever run is the branch query, the repository
\* stays as it was found, and the process ends by printing the message and the
\* help and exiting with status 1.
C1_WrongBranchAborts ==
    (startRepo.HEAD # V3 /\ ~argv.help) =>
        /\ repo = startRepo
        /\ Ops(cmdLog) \subseteq {"rev-parse"}
        /\ Len(cmdLog) <= 1
        /\ pc \in {"start", "isDeployAbleBranch", "catch", "exited"}
        /\ pc \in {"catch", "exited"} => error = WrongBranch
        /\ exitCode \in {-1, 1}
        /\ pc = "exited" => exitCode = 1 /\ console = ErrorReport(WrongBranch)

C1_Witness ==
    /\ startRepo.HEAD = FEATURE
    /\ pc = "exited"
    /\ exitCode = 1
    /\ error = WrongBranch
    /\ Len(cmdLog) = 1

\* C2: once syncWebclient has completed successfully (it printed "Sync
\* webclient"), the checked-out branch is "v3".
C2_EndsOnV3 ==
    Printed("success", "Sync webclient") => repo.HEAD = V3

C2_Witness ==
    /\ Printed("success", "Sync webclient")
    /\ exitCode = 0
    /\ \E i \in 1..Len(cmdLog) : cmdLog[i] = [c |-> Cmd("checkout", PUBLIC), ok |-> TRUE]
    /\ repo.HEAD = V3

\* C3: a step of the driver that fails ends the workflow: the command that
\* failed is the last command run (nothing is run after it, nothing is run
\* again), the error message and then the help are printed and the status is
\* 1; the status is 0 only when no step failed.  The failing remote check of
\* hasPublicRemote is not a failed step: it selects the bootstrap.
C3_FailureAborts ==
    /\ \A i \in 1..(Len(cmdLog) - 1) : cmdLog[i].ok \/ cmdLog[i].c = HasRemoteCmd
    /\ error # "" => pc \in {"catch", "exited"}
    /\ pc = "catch" => error # "" /\ ~awaiting
    /\ error = CommandFailed => cmdLog # <<>> /\ ~LastOf(cmdLog).ok
    /\ error = WrongBranch => cmdLog = <<[c |-> Cmd("rev-parse", EMPTY), ok |-> TRUE]>>
    /\ (pc = "exited" /\ error # "") =>
          /\ exitCode = 1
          /\ Len(console) >= 3
          /\ SubSeq(console, Len(console) - 2, Len(console)) = ErrorReport(error)
    /\ exitCode = 1 => error # ""
    /\ exitCode = 0 =>
          /\ error = ""
          /\ \A i \in 1..Len(cmdLog) : cmdLog[i].ok \/ cmdLog[i].c = HasRemoteCmd
          /\ Printed("success", "Sync webclient")
          /\ angularRelease # {} /\ webclientRelease # {}
          /\ ~Printed("help", "")

C3_Witness ==
    /\ pc = "exited"
    /\ exitCode = 1
    /\ error = CommandFailed
    /\ LastOf(cmdLog).c.op = "push"
    /\ ~LastOf(cmdLog).ok

\* the commands run since the webclient release was resolved
SyncLog ==
    LET last == CHOOSE i \in 1..Len(cmdLog) :
                    /\ cmdLog[i].c.op = "log|grep -w"
                    /\ \A j \in (i + 1)..Len(cmdLog) : cmdLog[j].c.op # "log|grep -w"
    IN SubSeq(cmdLog, last + 1, Len(cmdLog))

SyncOrder ==
    <<Cmd("checkout", V3), Cmd("pull origin", V3), Cmd("checkout", PUBLIC),
      Cmd("pull webclient", PUBLIC),
      CmdXY("cherry-pick", TheHash(webclientRelease), TheHash(angularRelease)),
      Cmd("push", PUBLIC), Cmd("checkout", V3)>>

\* the commits after webclientRelease.hash up to and including
\* angularRelease.hash: those of the history of the second that are not in the
\* history of the first, oldest first
ReleaseRange ==
    LET A == Resolve(repo.commits, TheHash(webclientRelease))
        B == Resolve(repo.commits, TheHash(angularRelease))
        HB == History(repo.commits, B)
        n == Cardinality({i \in 1..Len(HB) : ~IsAncestor(repo.commits, HB[i], A)})
    IN [i \in 1..n |-> HB[n + 1 - i]]

\* C4: the commands of syncWebclient run in the order checkout v3, pull v3,
\* checkout public, pull public, cherry-pick, push, checkout v3, each only
\* after the one before it succeeded (so the push never follows a failed
\* cherry-pick); the cherry-pick runs with "public" checked out and replays
\* exactly the commits after webclientRelease.hash up to and including
\* angularRelease.hash, oldest first, on top of that branch.
C4_SyncOrderAndRange ==
    webclientRelease # {} =>
        /\ Len(SyncLog) <= Len(SyncOrder)
        /\ \A i \in 1..Len(SyncLog) :
              /\ SyncLog[i].c = SyncOrder[i]
              /\ i < Len(SyncLog) => SyncLog[i].ok
        /\ picked.src # <<>> =>
              /\ picked.on = PUBLIC
              /\ picked.src = ReleaseRange
              /\ ~InSeq(Resolve(repo.commits, TheHash(webclientRelease)), picked.src)
              /\ LastOf(picked.src) = Resolve(repo.commits, TheHash(angularRelease))
        /\ (pc = "syncWebclient3" /\ ~awaiting) =>
              /\ picked.src # <<>>
              /\ repo.HEAD = PUBLIC
              /\ LET H == History(repo.commits, repo.refs[PUBLIC])
                     n == Len(picked.src)
                 IN /\ Len(H) > n
                    /\ \A i \in 1..n :
                          repo.commits[H[i]].s = repo.commits[picked.src[n + 1 - i]].s
                    /\ H[n + 1] = startRepo.server

C4_Witness ==
    /\ exitCode = 0
    /\ Len(picked.src) = 2
    /\ Len(SyncLog) = 7

\* C5: when hasPublicRemote is called twice in a row, the bootstrap of
\* addPublicRemote is run at most once, the remote check of the second call
\* succeeds, and when the webclient remote was registered from the start no
\* command but the remote check is run.
C5_BootstrapAtMostOnce ==
    /\ CountOp(cmdLog, "remote add") <= 1
    /\ CountOp(cmdLog, "fetch") <= 1
    /\ CountOp(cmdLog, "checkout -b") <= 1
    /\ \A i \in 2..Len(cmdLog) : cmdLog[i].c.op = "remote|grep" => cmdLog[i].ok
    /\ WEBCLIENT \in startRepo.remotes => Ops(cmdLog) \subseteq {"remote|grep"}
    /\ pc = "end" => CountOp(cmdLog, "remote|grep") = 2

C5_Witness ==
    /\ pc = "end"
    /\ CountOp(cmdLog, "remote|grep") = 2
    /\ CountOp(cmdLog, "remote add") = 1
    /\ WEBCLIENT \notin startRepo.remotes
    /\ WEBCLIENT \in repo.remotes

\* position in history H of the most recent commit whose subject contains
\* `name` as a whole word, 0 when there is none
MostRecentWithWord(H, name) ==
    LET M == {i \in 1..Len(H) : GrepW(name, repo.commits[H[i]].s)}
    IN IF M = {} THEN 0 ELSE CHOOSE i \in M : \A j \in M : i <= j

LastCmds(n) == SubSeq(cmdLog, Len(cmdLog) - n + 1, Len(cmdLog))

\* getWebclientRelease has just returned to the driver
WebclientReleaseReturned == pc = "print" /\ webclientRelease # {}

\* the commands of getWebclientRelease ran in the order of the source, all
\* with success, and left "v3" checked out
WebclientReleaseSteps ==
    /\ Len(cmdLog) >= 4
    /\ LastCmds(4) =
         <<[c |-> Cmd("checkout", PUBLIC), ok |-> TRUE],
           [c |-> Cmd("log -1 %s", EMPTY), ok |-> TRUE],
           [c |-> Cmd("checkout", V3), ok |-> TRUE],
           [c |-> CmdXY("log|grep -w", repo.commits[repo.refs[PUBLIC]].s, EMPTY),
            ok |-> TRUE]>>
    /\ repo.HEAD = V3

\* C6 (as claimed): when getWebclientRelease returns, it has checked out
\* "public", read the subject of its last commit, checked out "v3" and then
\* searched; "v3" is checked out and the pointer returned is the most recent
\* commit of the history of v3 whose message contains that subject as a whole
\* word.
C6_WebclientReleaseFromMessage ==
    WebclientReleaseReturned =>
        /\ WebclientReleaseSteps
        /\ LET H == History(repo.commits, repo.refs[V3])
               m == MostRecentWithWord(H, repo.commits[repo.refs[PUBLIC]].s)
           IN /\ m # 0
              /\ TheHash(webclientRelease) = HashStr(H[m])

\* getAngularRelease has just returned to the driver; the branch it read is
\* still checked out
AngularReleaseReturned ==
    pc = "getWebclientRelease" /\ ~awaiting /\ angularRelease # {}

TheLabel(rel) == (CHOOSE p \in rel : TRUE).label

\* C7 (as claimed): the pointer getAngularRelease(tag) returns is the most
\* recent commit of the searched history whose message contains the tag as a
\* whole word, and its label contains the tag as a whole word.
C7_TagReleaseFromMessage ==
    (AngularReleaseReturned /\ Truthy(argv.tag)) =>
        LET H == History(repo.commits, repo.refs[repo.HEAD])
            m == MostRecentWithWord(H, TagName(argv.tag))
        IN /\ m # 0
           /\ TheHash(angularRelease) = HashStr(H[m])
           /\ GrepW(TagName(argv.tag), TheLabel(angularRelease))

\* C8: without a tag, getAngularRelease returns the pointer of the one
\* most-recent-commit query on the checked-out branch and searches no
\* history: the only search of a run is the one of getWebclientRelease, which
\* follows its checkout of "v3".
C8_NoTagLatestCommit ==
    argv.tag = {} =>
        /\ target = "angularRelease" => pc # "getCommitByName"
        /\ \A i \in 1..Len(cmdLog) :
              cmdLog[i].c.op = "log|grep -w" =>
                  /\ i > 1
                  /\ cmdLog[i - 1].c = Cmd("checkout", V3)
                  /\ target = "webclientRelease"
        /\ AngularReleaseReturned =>
              /\ LastOf(cmdLog) = [c |-> Cmd("log -1 %H---%s", EMPTY), ok |-> TRUE]
              /\ CountOp(cmdLog, "log -1 %H---%s") = 1
              /\ TheHash(angularRelease) = HashStr(repo.refs[repo.HEAD])
              /\ angularRelease =
                    {ParsePointer(<<LogLines(repo.commits, repo.refs[repo.HEAD])[1]>>)}

C8_Witness ==
    /\ argv.tag = {}
    /\ AngularReleaseReturned
    /\ TheLabel(angularRelease) # EMPTY

CherryPickRan == \E i \in 1..Len(cmdLog) : cmdLog[i].c.op = "cherry-pick"

\* C9 (as claimed): when the two resolved pointers are equal, the cherry-pick
\* of the empty range is a successful no-op: the command does not fail and
\* the run goes on to the push.
C9_EmptyRangeIsSuccess ==
    (CherryPickRan /\ TheHash(webclientRelease) = TheHash(angularRelease)) =>
        \A i \in 1..Len(cmdLog) : cmdLog[i].c.op = "cherry-pick" => cmdLog[i].ok

\* the last command run was a history search that selected no line
SearchFoundNothing ==
    /\ cmdLog # <<>>
    /\ ~awaiting
    /\ LastOf(cmdLog).c.op = "log|grep -w"
    /\ \A i \in 1..Len(LogLines(repo.commits, repo.refs[repo.HEAD])) :
          ~GrepW(LastOf(cmdLog).c.x, LogLines(repo.commits, repo.refs[repo.HEAD])[i])

TargetPointer == IF target = "angularRelease" THEN angularRelease ELSE webclientRelease

\* C10 (as claimed): when no commit of the searched history matches the name,
\* the resolving function raises no error and returns the pointer with the
\* empty hash and the empty label.
C10_NoMatchReturnsEmptyPointer ==
    SearchFoundNothing =>
        /\ error = ""
        /\ TargetPointer = {[hash |-> EMPTY, label |-> EMPTY]}

\* C10 (amended): when no commit of the searched history matches the name,
\* the search command fails, getCommitByName throws that failure and binds no
\* pointer, and the driver ends with status 1; a search fails only in that
\* case, and every pointer a resolving function returns has a non-empty hash.
C10_NoMatchRejects ==
    /\ SearchFoundNothing =>
          /\ ~LastOf(cmdLog).ok
          /\ error = CommandFailed
          /\ pc \in {"catch", "exited"}
          /\ TargetPointer = {}
          /\ pc = "exited" => exitCode = 1
    /\ \A i \in 1..Len(cmdLog) :
          (cmdLog[i].c.op = "log|grep -w" /\ ~cmdLog[i].ok) =>
              i = Len(cmdLog) /\ (awaiting \/ SearchFoundNothing)
    /\ \A p \in angularRelease \cup webclientRelease : p.hash # EMPTY

C10_Witness ==
    /\ SearchFoundNothing
    /\ pc = "exited"
    /\ exitCode = 1
    /\ target = "webclientRelease"

\* C11: with --help the script prints the usage text and does nothing else:
\* no command is started or run and the repository stays as it was found.
C11_HelpOnly ==
    argv.help =>
        /\ cmdLog = <<>>
        /\ inflight = 0
        /\ ~awaiting
        /\ repo = startRepo
        /\ pc \in {"start", "end"}
        /\ pc = "end" => console = <<[k |-> "help", m |-> ""]>>
        /\ exitCode = -1
        /\ angularRelease = {} /\ webclientRelease = {}

C11_Witness ==
    /\ argv.help
    /\ pc = "end"
    /\ console = <<[k |-> "help", m |-> ""]>>

\* C12: at most one command invocation is in flight at any time: one is in
\* flight exactly while the script is suspended on it, and the script is
\* suspended only at a statement that awaits a command.
C12_OneInFlight ==
    /\ inflight \in {0, 1}
    /\ inflight = 1 <=> awaiting
    /\ awaiting => pc \in ExecSteps

C12_Witness ==
    /\ inflight = 1
    /\ pc = "syncWebclient2"
    /\ Len(cmdLog) >= 8

\* getAngularRelease is about to query, or is querying, the history
AngularReleaseQuery ==
    target = "angularRelease" /\ pc \in {"getLatestCommit", "getCommitByName"}

\* C13 (as claimed): when getAngularRelease queries the history, "v3" is the
\* checked-out branch, on every path through hasPublicRemote.
C13_AngularReleaseReadOnV3 ==
    AngularReleaseQuery => repo.HEAD = V3

SyncSteps == {"syncWebclient", "syncWebclient2", "syncWebclient3", "syncWebclient4"}

IsCommitId(str) == str # EMPTY /\ Resolve(repo.commits, str) # 0

\* C14: the cherry-pick is never given an empty hash: whenever the driver is
\* in syncWebclient both pointers are bound and their hashes name commits, and
\* both ends of the range of every cherry-pick run name commits.
C14_NoEmptyHashInRange ==
    /\ pc \in SyncSteps =>
          /\ angularRelease # {} /\ webclientRelease # {}
          /\ IsCommitId(TheHash(angularRelease))
          /\ IsCommitId(TheHash(webclientRelease))
    /\ \A i \in 1..Len(cmdLog) :
          cmdLog[i].c.op = "cherry-pick" =>
              IsCommitId(cmdLog[i].c.x) /\ IsCommitId(cmdLog[i].c.y)

C14_Witness ==
    /\ CherryPickRan
    /\ pc = "syncWebclient3"
    /\ argv.tag # {}

\* C16 (as claimed): the label of every pointer returned is the complete
\* first line of the message of the commit its hash names.
C16_LabelIsWholeSubject ==
    \A p \in angularRelease \cup webclientRelease :
        /\ Resolve(repo.commits, p.hash) # 0
        /\ p.label = repo.commits[Resolve(repo.commits, p.hash)].s

\* hasPublicRemote has just returned to the driver
PublicRemoteReturned == pc = "getAngularRelease"

\* C15 (as claimed): whenever hasPublicRemote returns, the webclient remote is
\* registered and the local branch "public" exists, in every run of the
\* script on the clone.
C15_RemoteAndBranchAfterCheck ==
    PublicRemoteReturned =>
        /\ WEBCLIENT \in repo.remotes
        /\ PUBLIC \in DOMAIN repo.refs

\* ------------------------------------------------ the protonLoader directive
EventTypes == {"load", "close", "other"}

\* mutant: the listener misses the type 'close'
Scheduled_mut(type) == IF type = "load" THEN <<"add">> ELSE <<>>

\* type === 'load' && _rAF(add 'show'); type === 'close' && _rAF(remove 'show')
Scheduled(type) ==
    IF type = "load" THEN <<"add">>
    ELSE IF type = "close" THEN <<"remove">>
    ELSE <<>>

\* el[0].classList.add('show') / el[0].classList.remove('show')
RunCallback(cb, classes) ==
    IF cb = "add" THEN classes \cup {"show"} ELSE classes \ {"show"}

RECURSIVE RunCallbacks(_, _)
\* the callbacks of a frame run in the order they were scheduled
RunCallbacks(q, classes) ==
    IF q = <<>> THEN classes
    ELSE RunCallbacks(Tail(q), RunCallback(Head(q), classes))

\* $rootScope.$on('networkActivity', (e, type) => ...)
networkActivity ==
    /\ Len(events) < MaxEvents
    /\ \E type \in EventTypes :
          /\ events' = Append(events, type)
          /\ rafQueue' = rafQueue \o Scheduled(type)
    /\ UNCHANGED classList
    /\ UNCHANGED scriptVars

\* the browser runs the animation-frame callbacks scheduled so far
animationFrame ==
    /\ rafQueue # <<>>
    /\ classList' = RunCallbacks(rafQueue, classList)
    /\ rafQueue' = <<>>
    /\ UNCHANGED events
    /\ UNCHANGED scriptVars

\* the script is not part of the page: it stays as it ended
ScriptIdle ==
    /\ pc = "end"
    /\ plan = <<>>
    /\ awaiting = FALSE
    /\ inflight = 0
    /\ repo = [HEAD |-> V3, refs |-> (V3 :> 1),
               commits |-> <<[s |-> <<"a">>, p |-> 0]>>,
               remotes |-> {ORIGIN}, server |-> 1]
    /\ startRepo = repo
    /\ argv = [tag |-> {}, help |-> TRUE]
    /\ nameArg = EMPTY
    /\ target = "none"
    /\ wcStdout = <<>>
    /\ angularRelease = {}
    /\ webclientRelease = {}
    /\ error = ""
    /\ console = <<>>
    /\ exitCode = -1
    /\ cmdLog = <<>>
    /\ runs = 1
    /\ picked = [on |-> EMPTY, src |-> <<>>]

InitLoader == InitLoaderVars /\ ScriptIdle

NextLoader ==
    \/ networkActivity
    \/ animationFrame

SpecLoader == InitLoader /\ [][NextLoader]_vars

\* the events of type 'load' or 'close', in order
LoadClose == SelectSeq(events, LAMBDA t : t \in {"load", "close"})

\* C17: once every scheduled animation-frame callback has run, the element
\* has the class 'show' exactly when the last event of type 'load' or 'close'
\* was a 'load'; at every moment the callbacks scheduled are those of the
\* latest 'load' and 'close' events, in order, and the class is the one the
\* event before them left: events of any other type schedule nothing and
\* change nothing.
C17_ShowFollowsLastEvent ==
    /\ rafQueue = <<>> =>
          ("show" \in classList <=>
              (LoadClose # <<>> /\ LoadClose[Len(LoadClose)] = "load"))
    /\ \E k \in 0..Len(LoadClose) :
          /\ Len(rafQueue) = Len(LoadClose) - k
          /\ \A i \in 1..Len(rafQueue) :
                rafQueue[i] = IF LoadClose[k + i] = "load" THEN "add" ELSE "remove"
          /\ "show" \in classList <=> (k > 0 /\ LoadClose[k] = "load")
    /\ classList \subseteq {"show"}

C17_Witness ==
    /\ rafQueue = <<>>
    /\ "show" \in classList
    /\ events = <<"close", "load", "other", "other">>

====
